---- MODULE Spec2Model ----
(***************************************************************************)
(* tree-to-excel (src/src/main.rs): the line parser TreeParser, the grid   *)
(* projection ExcelGenerator::convert_to_rows and the range merger         *)
(* ExcelGenerator::merge_level_column.                                     *)
(*                                                                         *)
(* Text is a sequence of characters.  A character is a one-character       *)
(* string; the characters outside ASCII carry a name:                      *)
(*   "VBAR" U+2502, "TEE" U+251C, "ELL" U+2514, "HBAR" U+2500,             *)
(*   "NBSP" U+00A0, "ESC" U+001B, "LF" U+000A, "CR" U+000D, "TAB" U+0009,  *)
(*   "CHART" U+1F4CA, "TONG" U+7EDF, "JI" U+8BA1.                          *)
(* An Option is a sequence of length at most one: None is <<>>.            *)
(***************************************************************************)
EXTENDS Integers, Sequences, FiniteSets

VARIABLES
    pc,             \* position in main / generate
    input,          \* input_content: the text read from file or stdin
    include_hidden, \* the --include-hidden flag
    lines,          \* parse: input.lines()
    line_idx,       \* parse: index of the next line of the for loop
    items,          \* parse: Vec<TreeItem>
    path_stack,     \* parse: Vec<String> of open ancestors
    stats_line,     \* parse: Option<String>
    hidden_levels,  \* parse: Vec<usize>
    rows,           \* generate: Vec<ExcelRow>
    data_rows,      \* write_data: the rows that are not the statistics row
    max_level,      \* write_data: rows[0].max_level
    level_idx,      \* write_data_with_merging: the column of the for loop
    current_row,    \* write_data: the next sheet row
    merges,         \* the merge_range calls of merge_level_column, per column
    ansi_text,      \* remove_ansi_codes: the argument
    ansi_once,      \* remove_ansi_codes applied once
    ansi_twice,     \* remove_ansi_codes applied to its own result
    tree_line,      \* parse_line: the argument
    line_result,    \* parse_line: the Option<(usize, String)> returned
    entry_name,     \* is_file: the argument
    entry_is_file   \* is_file: the Option of the bool returned

vars == <<pc, input, include_hidden, lines, line_idx, items, path_stack,
          stats_line, hidden_levels, rows, data_rows, max_level, level_idx,
          current_row, merges, ansi_text, ansi_once, ansi_twice, tree_line,
          line_result, entry_name, entry_is_file>>

parseVars == <<input, include_hidden, lines, line_idx, items, path_stack,
               stats_line, hidden_levels>>
sheetVars == <<rows, data_rows, max_level, level_idx, current_row, merges>>
pureVars  == <<ansi_text, ansi_once, ansi_twice, tree_line, line_result,
               entry_name, entry_is_file>>

----------------------------------------------------------------------------
(* Bounds *)

MaxLines   == 3   \* lines of an input text
MaxAnsiLen == 5   \* characters of a text given to remove_ansi_codes
MaxUnits   == 2   \* indentation units of a line given to parse_line
MaxNameLen == 4   \* characters of a name given to is_file
MaxCells   == 8   \* cells (rows times level columns) of a grid given to merge_level_column

----------------------------------------------------------------------------
(* Options and strings *)

None == <<>>
Some(v) == <<v>>

\* char::is_whitespace, on the characters of the model
IsWhitespace(c) == c \in {" ", "NBSP", "TAB", "LF", "CR"}

\* char::is_ascii_alphabetic
AsciiAlphabetic ==
    {"a","b","c","d","e","f","g","h","i","j","k","l","m",
     "n","o","p","q","r","s","t","u","v","w","x","y","z",
     "A","B","C","D","E","F","G","H","I","J","K","L","M",
     "N","O","P","Q","R","S","T","U","V","W","X","Y","Z"}

RECURSIVE TrimStart(_)
TrimStart(s) ==
    IF s # <<>> /\ IsWhitespace(Head(s)) THEN TrimStart(Tail(s)) ELSE s

RECURSIVE TrimEnd(_)
TrimEnd(s) ==
    IF s # <<>> /\ IsWhitespace(s[Len(s)])
    THEN TrimEnd(SubSeq(s, 1, Len(s) - 1)) ELSE s

\* str::trim
Trim(s) == TrimEnd(TrimStart(s))

\* str::contains(&str)
Contains(s, sub) ==
    \E i \in 1..(Len(s) - Len(sub) + 1) : SubSeq(s, i, i + Len(sub) - 1) = sub

\* str::contains(char)
ContainsChar(s, c) == \E i \in 1..Len(s) : s[i] = c

\* str::starts_with
StartsWith(s, p) == Len(s) >= Len(p) /\ SubSeq(s, 1, Len(p)) = p

\* str::ends_with(char)
EndsWithChar(s, c) == s # <<>> /\ s[Len(s)] = c

\* [String]::join("/")
RECURSIVE Join(_, _)
Join(parts, sep) ==
    IF parts = <<>> THEN <<>>
    ELSE IF Len(parts) = 1 THEN parts[1]
    ELSE parts[1] \o sep \o Join(Tail(parts), sep)

\* str::lines: split at "LF", a final empty piece is no line, a "CR" before
\* the "LF" belongs to the line ending
StripCr(s) == IF EndsWithChar(s, "CR") THEN SubSeq(s, 1, Len(s) - 1) ELSE s

RECURSIVE SplitLines(_, _, _)
SplitLines(text, from, i) ==
    IF i > Len(text)
    THEN IF from > Len(text) THEN <<>>
         ELSE <<StripCr(SubSeq(text, from, Len(text)))>>
    ELSE IF text[i] = "LF"
         THEN <<StripCr(SubSeq(text, from, i - 1))>> \o SplitLines(text, i + 1, i + 1)
         ELSE SplitLines(text, from, i + 1)

Lines(text) == SplitLines(text, 1, 1)

\* usize as Display
Digits == <<"0", "1", "2", "3", "4", "5", "6", "7", "8", "9">>

RECURSIVE Decimal(_)
Decimal(n) ==
    IF n < 10 THEN <<Digits[n + 1]>>
    ELSE Decimal(n \div 10) \o <<Digits[(n % 10) + 1]>>

WordDirectories == <<"d","i","r","e","c","t","o","r","i","e","s">>
WordFiles == <<"f","i","l","e","s">>

\* format!("{} directories, {} files", dir_count, file_count)
FormatCounts(dir_count, file_count) ==
    Decimal(dir_count) \o <<" ">> \o WordDirectories \o <<",", " ">>
        \o Decimal(file_count) \o <<" ">> \o WordFiles

\* format!("CHART TONG JI: {}", stats_text)
StatsPrefix == <<"CHART", " ", "TONG", "JI", ":", " ">>
FormatStats(stats_text) == StatsPrefix \o stats_text

\* the sequences over S of length lo..hi
SeqsBetween(S, lo, hi) == UNION {[1..n -> S] : n \in lo..hi}

----------------------------------------------------------------------------
(* TreeParser::remove_ansi_codes *)

\* the while-let loop from character i on; in_seq: inside the inner loop that
\* consumes a bracket-introduced sequence up to its terminator
RECURSIVE AnsiScan(_, _, _)
AnsiScan(text, i, in_seq) ==
    IF i > Len(text) THEN <<>>
    ELSE IF in_seq
         THEN AnsiScan(text, i + 1, ~(text[i] \in AsciiAlphabetic \/ text[i] = "~"))
         ELSE IF text[i] = "ESC"
              THEN IF i + 1 <= Len(text) /\ text[i + 1] = "["
                   THEN AnsiScan(text, i + 2, TRUE)
                   ELSE AnsiScan(text, i + 1, FALSE)
              ELSE <<text[i]>> \o AnsiScan(text, i + 1, FALSE)

\* a variant that keeps an escape character no bracket follows
RECURSIVE AnsiScanKeepLone(_, _, _)
AnsiScanKeepLone(text, i, in_seq) ==
    IF i > Len(text) THEN <<>>
    ELSE IF in_seq
         THEN AnsiScanKeepLone(text, i + 1, ~(text[i] \in AsciiAlphabetic \/ text[i] = "~"))
         ELSE IF text[i] = "ESC" /\ i + 1 <= Len(text) /\ text[i + 1] = "["
              THEN AnsiScanKeepLone(text, i + 2, TRUE)
              ELSE <<text[i]>> \o AnsiScanKeepLone(text, i + 1, FALSE)

remove_ansi_codes_keep_lone(text) == AnsiScanKeepLone(text, 1, FALSE)

remove_ansi_codes(text) == AnsiScan(text, 1, FALSE)

----------------------------------------------------------------------------
(* TreeParser::parse_line *)

\* one pass of the indentation loop: does a unit start at 0-based position pos
IsBarUnit(chars, pos) ==
    /\ chars[pos + 1] = "VBAR"
    /\ IsWhitespace(chars[pos + 2])
    /\ IsWhitespace(chars[pos + 3])
    /\ IsWhitespace(chars[pos + 4])

IsSpaceUnit(chars, pos) ==
    /\ chars[pos + 1] = " "
    /\ chars[pos + 2] = " "
    /\ chars[pos + 3] = " "
    /\ chars[pos + 4] = " "

\* the indentation loop: <<pos, level>> when it ends
RECURSIVE IndentScan(_, _, _)
IndentScan(chars, pos, level) ==
    IF pos + 3 < Len(chars) /\ (IsBarUnit(chars, pos) \/ IsSpaceUnit(chars, pos))
    THEN IndentScan(chars, pos + 4, level + 1)
    ELSE <<pos, level>>

\* a variant of the loop that knows the bar unit only
RECURSIVE IndentScanBarOnly(_, _, _)
IndentScanBarOnly(chars, pos, level) ==
    IF pos + 3 < Len(chars) /\ IsBarUnit(chars, pos)
    THEN IndentScanBarOnly(chars, pos + 4, level + 1)
    ELSE <<pos, level>>

IsRootMarker(line) ==
    LET trimmed == Trim(line)
    IN  \/ trimmed = <<".">>
        \/ /\ EndsWithChar(trimmed, "/")
           /\ ~ContainsChar(trimmed, "TEE")
           /\ ~ContainsChar(trimmed, "ELL")

\* the part of parse_line after the indentation loop
AfterIndent(chars, pos, level) ==
    IF /\ pos + 2 < Len(chars)
       /\ chars[pos + 1] \in {"TEE", "ELL"}
       /\ chars[pos + 2] = "HBAR"
       /\ chars[pos + 3] = "HBAR"
    THEN LET p3 == pos + 3
             p4 == IF p3 < Len(chars) /\ chars[p3 + 1] = " " THEN p3 + 1 ELSE p3
         IN  IF p4 >= Len(chars) THEN None
             ELSE LET nm == Trim(SubSeq(chars, p4 + 1, Len(chars)))
                  IN  IF nm = <<>> THEN None ELSE Some(<<level + 1, nm>>)
    ELSE None

parse_line_bar_only(line) ==
    IF IsRootMarker(line) THEN None
    ELSE LET chars == remove_ansi_codes(line)
             at == IndentScanBarOnly(chars, 0, 0)
         IN  AfterIndent(chars, at[1], at[2])

parse_line(line) ==
    IF IsRootMarker(line) THEN None
    ELSE LET chars == remove_ansi_codes(line)
             at == IndentScan(chars, 0, 0)
         IN  AfterIndent(chars, at[1], at[2])

----------------------------------------------------------------------------
(* TreeParser::is_file *)

AllowList ==
    { <<"C","a","r","g","o",".","l","o","c","k">>,
      <<"D","o","c","k","e","r","f","i","l","e">>,
      <<"M","a","k","e","f","i","l","e">>,
      <<"L","I","C","E","N","S","E">>,
      <<"R","E","A","D","M","E">>,
      <<"C","H","A","N","G","E","L","O","G">> }

\* str::find and str::rfind of '.', 0-based, on a name that contains one
Find(nm, c) == CHOOSE i \in 0..(Len(nm) - 1) :
                   nm[i + 1] = c /\ \A k \in 0..(i - 1) : nm[k + 1] # c
RFind(nm, c) == CHOOSE i \in 0..(Len(nm) - 1) :
                    nm[i + 1] = c /\ \A k \in (i + 1)..(Len(nm) - 1) : nm[k + 1] # c

\* a variant that looks at the first '.' of the name
is_file_first_dot(nm) ==
    IF ContainsChar(nm, ".") /\ ~StartsWith(nm, <<".">>)
    THEN LET dot_pos == Find(nm, ".") IN dot_pos > 0 /\ dot_pos < Len(nm) - 1
    ELSE nm \in AllowList

is_file(nm) ==
    IF ContainsChar(nm, ".") /\ ~StartsWith(nm, <<".">>)
    THEN LET dot_pos == RFind(nm, ".") IN dot_pos > 0 /\ dot_pos < Len(nm) - 1
    ELSE nm \in AllowList

----------------------------------------------------------------------------
(* TreeParser::parse *)

Min(a, b) == IF a < b THEN a ELSE b
Max(a, b) == IF a > b THEN a ELSE b

\* Vec::truncate
Truncate(v, n) == SubSeq(v, 1, Min(n, Len(v)))

\* usize::saturating_sub
SaturatingSub(a, b) == Max(a - b, 0)

\* line.contains("directories") && line.contains("files")
IsStatsLine(line) == Contains(line, WordDirectories) /\ Contains(line, WordFiles)

\* a variant that keeps the statistics line captured first
capture_stats_first(captured, line) ==
    IF captured = None THEN Some(Trim(line)) ELSE captured

\* stats_line = Some(line.trim().to_string())
capture_stats(captured, line) == Some(Trim(line))

\* hidden_levels.retain(|&hidden_level| hidden_level < level)
retain_hidden(levels, level) ==
    LET Keep(hidden_level) == hidden_level < level IN SelectSeq(levels, Keep)

\* !include_hidden && (name.starts_with('.') || in_hidden_dir)
is_filtered(hidden, nm, retained) ==
    ~hidden /\ (StartsWith(nm, <<".">>) \/ retained # <<>>)

\* a variant that never records the level of a hidden entry
push_hidden_never(retained, level, nm) == retained

\* if name.starts_with('.') { hidden_levels.push(level) }
push_hidden(retained, level, nm) ==
    IF StartsWith(nm, <<".">>) THEN Append(retained, level) ELSE retained

\* the full_path of an entry under the truncated path_stack
build_full_path(stack, nm) ==
    IF stack = <<>> THEN nm ELSE Join(stack, <<"/">>) \o <<"/">> \o nm

CountFiles(its) == Len(SelectSeq(its, LAMBDA item : item.is_file))
CountDirs(its) == Len(SelectSeq(its, LAMBDA item : ~item.is_file))

\* a variant that prefers the captured line whatever include_hidden is
stats_text_prefer_captured(hidden, captured, dir_count, file_count) ==
    IF captured # None THEN captured[1] ELSE FormatCounts(dir_count, file_count)

\* a variant that always recomputes
stats_text_recomputed(hidden, captured, dir_count, file_count) ==
    FormatCounts(dir_count, file_count)

\* let stats_text = if include_hidden { stats_line.unwrap_or_else(..) } else { .. }
stats_text(hidden, captured, dir_count, file_count) ==
    IF hidden
    THEN IF captured # None THEN captured[1] ELSE FormatCounts(dir_count, file_count)
    ELSE FormatCounts(dir_count, file_count)

TreeItem(nm, level, file, path) ==
    [name |-> nm, level |-> level, is_file |-> file, full_path |-> path]

summary_item(text) == TreeItem(FormatStats(text), 0, FALSE, FormatStats(text))

\* main: the text is handed to TreeParser::parse, which splits it into lines
ParseBegin ==
    /\ pc = "main"
    /\ pc' = "parse"
    /\ lines' = Lines(input)
    /\ line_idx' = 1
    /\ items' = <<>>
    /\ path_stack' = <<>>
    /\ stats_line' = None
    /\ hidden_levels' = <<>>
    /\ UNCHANGED <<input, include_hidden, sheetVars, pureVars>>

InLoop == pc = "parse" /\ line_idx <= Len(lines)

\* if line.trim().is_empty() { continue; }
ParseBlankLine ==
    /\ InLoop
    /\ Trim(lines[line_idx]) = <<>>
    /\ line_idx' = line_idx + 1
    /\ UNCHANGED <<pc, input, include_hidden, lines, items, path_stack,
                   stats_line, hidden_levels, sheetVars, pureVars>>

\* the statistics line
ParseStatsLine ==
    /\ InLoop
    /\ Trim(lines[line_idx]) # <<>>
    /\ IsStatsLine(lines[line_idx])
    /\ stats_line' = capture_stats(stats_line, lines[line_idx])
    /\ line_idx' = line_idx + 1
    /\ UNCHANGED <<pc, input, include_hidden, lines, items, path_stack,
                   hidden_levels, sheetVars, pureVars>>

IsEntryLine(line) == Trim(line) # <<>> /\ ~IsStatsLine(line)

\* parse_line returned None
ParseSkipLine ==
    /\ InLoop
    /\ IsEntryLine(lines[line_idx])
    /\ parse_line(lines[line_idx]) = None
    /\ line_idx' = line_idx + 1
    /\ UNCHANGED <<pc, input, include_hidden, lines, items, path_stack,
                   stats_line, hidden_levels, sheetVars, pureVars>>

\* a hidden entry, or an entry inside a hidden directory, is filtered
ParseFilterEntry ==
    /\ InLoop
    /\ IsEntryLine(lines[line_idx])
    /\ parse_line(lines[line_idx]) # None
    /\ LET level == parse_line(lines[line_idx])[1][1]
           nm == parse_line(lines[line_idx])[1][2]
           retained == retain_hidden(hidden_levels, level)
       IN  /\ is_filtered(include_hidden, nm, retained)
           /\ hidden_levels' = push_hidden(retained, level, nm)
    /\ line_idx' = line_idx + 1
    /\ UNCHANGED <<pc, input, include_hidden, lines, items, path_stack,
                   stats_line, sheetVars, pureVars>>

\* an entry becomes a TreeItem
ParseAcceptEntry ==
    /\ InLoop
    /\ IsEntryLine(lines[line_idx])
    /\ parse_line(lines[line_idx]) # None
    /\ LET level == parse_line(lines[line_idx])[1][1]
           nm == parse_line(lines[line_idx])[1][2]
           retained == retain_hidden(hidden_levels, level)
           stack == Truncate(path_stack, SaturatingSub(level, 1))
       IN  /\ ~is_filtered(include_hidden, nm, retained)
           /\ hidden_levels' = retained
           /\ path_stack' = Append(stack, nm)
           /\ items' = Append(items,
                  TreeItem(nm, level, is_file(nm), build_full_path(stack, nm)))
    /\ line_idx' = line_idx + 1
    /\ UNCHANGED <<pc, input, include_hidden, lines, stats_line, sheetVars, pureVars>>

\* after the loop: the counts, the statistics text and the summary item
ParseFinish ==
    /\ pc = "parse"
    /\ line_idx > Len(lines)
    /\ items' = Append(items,
           summary_item(stats_text(include_hidden, stats_line,
                                   CountDirs(items), CountFiles(items))))
    /\ pc' = "convert"
    /\ UNCHANGED <<input, include_hidden, lines, line_idx, path_stack,
                   stats_line, hidden_levels, sheetVars, pureVars>>

----------------------------------------------------------------------------
(* ExcelGenerator::convert_to_rows *)

\* .unwrap_or(1), and generate's max_level of no rows
DefaultMaxLevel == 1

\* let mut current_row = 1u32: the sheet row below the header
FirstDataRow == 1

IsStatsName(nm) == StartsWith(nm, <<"CHART">>)

ExcelRow(levels, path, ml, file) ==
    [levels |-> levels, full_path |-> path, max_level |-> ml, is_file |-> file]

\* the max_level of convert_to_rows
MaxLevelOf(its) ==
    LET ls == {its[i].level : i \in {k \in 1..Len(its) : ~IsStatsName(its[k].name)}}
    IN  IF ls = {} THEN DefaultMaxLevel ELSE CHOOSE m \in ls : \A l \in ls : l <= m

\* the for loop of convert_to_rows from item i on, stack being its path_stack
RECURSIVE RowsFrom(_, _, _, _)
RowsFrom(its, i, stack, ml) ==
    IF i > Len(its) THEN <<>>
    ELSE IF IsStatsName(its[i].name)
         THEN <<ExcelRow([k \in 1..ml |-> IF k = 1 THEN its[i].name ELSE <<>>],
                         its[i].name, ml, FALSE)>>
              \o RowsFrom(its, i + 1, stack, ml)
         ELSE LET st == Append(Truncate(stack, SaturatingSub(its[i].level, 1)),
                               its[i].name)
              IN  <<ExcelRow([k \in 1..ml |-> IF k <= Len(st) THEN st[k] ELSE <<>>],
                             its[i].full_path, ml, its[i].is_file)>>
                  \o RowsFrom(its, i + 1, st, ml)

convert_to_rows(its) == RowsFrom(its, 1, <<>>, MaxLevelOf(its))

\* generate: let rows = self.convert_to_rows(items)
ConvertToRows ==
    /\ pc = "convert"
    /\ rows' = convert_to_rows(items)
    /\ pc' = "write"
    /\ UNCHANGED <<parseVars, data_rows, max_level, level_idx, current_row,
                   merges, pureVars>>

----------------------------------------------------------------------------
(* ExcelGenerator::write_data, write_data_with_merging, merge_level_column *)

\* write_data up to the call of write_data_with_merging, which returns at
\* once when there is no data row
WriteData ==
    /\ pc = "write"
    /\ rows # <<>>
    /\ max_level' = rows[1].max_level
    /\ current_row' = FirstDataRow
    /\ data_rows' = SelectSeq(rows, LAMBDA row : ~IsStatsName(row.levels[1]))
    /\ level_idx' = 0
    /\ merges' = <<>>
    /\ pc' = IF data_rows' = <<>> THEN "done" ELSE "merge"
    /\ UNCHANGED <<parseVars, rows, pureVars>>

\* a variant that never looks at the shallower columns
same_parent_always(grid, col, i, j) == TRUE

\* the same_parent loop: rows i and j (0-based) agree on the columns 0..col-1
same_parent(grid, col, i, j) ==
    \A prev_level \in 0..(col - 1) :
        grid[i + 1].levels[prev_level + 1] = grid[j + 1].levels[prev_level + 1]

\* the inner while loop: the first j at which the run that starts at i ends
RECURSIVE RunEnd(_, _, _, _)
RunEnd(grid, col, i, j) ==
    IF /\ j < Len(grid)
       /\ grid[j + 1].levels[col + 1] = grid[i + 1].levels[col + 1]
       /\ same_parent(grid, col, i, j)
    THEN RunEnd(grid, col, i, j + 1)
    ELSE j

\* a variant that merges a run of one row too
is_merged_any(i, j) == j - i >= 1

\* if j - i > 1
is_merged(i, j) == j - i > 1

\* the worksheet.merge_range call
MergeRange(first_row, first_col, last_row, last_col, value) ==
    [first_row |-> first_row, first_col |-> first_col,
     last_row |-> last_row, last_col |-> last_col, value |-> value]

\* the outer while loop from row i (0-based) on: the merge_range calls
RECURSIVE MergeScan(_, _, _, _)
MergeScan(grid, col, start_row, i) ==
    IF i >= Len(grid) THEN <<>>
    ELSE IF grid[i + 1].levels[col + 1] = <<>>
         THEN MergeScan(grid, col, start_row, i + 1)
         ELSE LET j == RunEnd(grid, col, i, i + 1)
              IN  (IF is_merged(i, j)
                   THEN <<MergeRange(start_row + i, col, start_row + (j - 1), col,
                                     grid[i + 1].levels[col + 1])>>
                   ELSE <<>>)
                  \o MergeScan(grid, col, start_row, j)

merge_level_column(grid, col, start_row) == MergeScan(grid, col, start_row, 0)

\* one pass of: for level_idx in 0..max_level { self.merge_level_column(..) }
MergeLevelColumn ==
    /\ pc = "merge"
    /\ level_idx < max_level
    /\ merges' = Append(merges, merge_level_column(data_rows, level_idx, current_row))
    /\ level_idx' = level_idx + 1
    /\ UNCHANGED <<pc, parseVars, rows, data_rows, max_level, current_row, pureVars>>

\* *current_row += rows.len()
MergeDone ==
    /\ pc = "merge"
    /\ level_idx >= max_level
    /\ current_row' = current_row + Len(data_rows)
    /\ pc' = "done"
    /\ UNCHANGED <<parseVars, rows, data_rows, max_level, level_idx, merges, pureVars>>

----------------------------------------------------------------------------
(* The pipeline of main: read, parse, convert_to_rows, write_data *)

BarUnit == <<"VBAR", "NBSP", "NBSP", " ">>
PlainBarUnit == <<"VBAR", " ", " ", " ">>
SpaceUnit == <<" ", " ", " ", " ">>
Tee == <<"TEE", "HBAR", "HBAR">>
Ell == <<"ELL", "HBAR", "HBAR">>

StatsLineA == <<"1", " ">> \o WordDirectories \o <<",", " ", "2", " ">> \o WordFiles
StatsLineB == <<" ", "3", " ">> \o WordDirectories \o <<",", " ", "0", " ">> \o WordFiles

\* the lines an input text is made of
InputLines ==
    { Tee \o <<" ", "a">>,                               \* a directory
      Tee \o <<" ", ".", "g">>,                          \* a hidden directory
      Tee \o <<" ", "d", "/", ".", "e">>,                \* a name with a '/'
      BarUnit \o Tee \o <<" ", "a", ".", "b">>,          \* a file, one level down
      BarUnit \o Ell \o <<" ", ".", "h">>,               \* a hidden entry, one level down
      BarUnit \o PlainBarUnit \o Ell \o <<" ", "c">>,    \* two levels down
      StatsLineA,
      StatsLineB,
      <<" ">>,                                           \* a blank line
      <<".">> }                                          \* the root marker

\* the text of the given lines, each ended by a line feed
RECURSIVE Unlines(_)
Unlines(ls) == IF ls = <<>> THEN <<>> ELSE Head(ls) \o <<"LF">> \o Unlines(Tail(ls))

InputTexts == {Unlines(ls) : ls \in SeqsBetween(InputLines, 0, MaxLines)}

IdlePure ==
    /\ ansi_text = <<>> /\ ansi_once = None /\ ansi_twice = None
    /\ tree_line = <<>> /\ line_result = None
    /\ entry_name = <<>> /\ entry_is_file = None

IdleParse ==
    /\ input = <<>> /\ include_hidden = FALSE /\ lines = <<>> /\ line_idx = 1
    /\ items = <<>> /\ path_stack = <<>> /\ stats_line = None
    /\ hidden_levels = <<>>

IdleSheet ==
    /\ rows = <<>> /\ data_rows = <<>> /\ max_level = DefaultMaxLevel /\ level_idx = 0
    /\ current_row = FirstDataRow /\ merges = <<>>

Init ==
    /\ pc = "main"
    /\ input \in InputTexts
    /\ include_hidden \in BOOLEAN
    /\ lines = <<>> /\ line_idx = 1 /\ items = <<>> /\ path_stack = <<>>
    /\ stats_line = None /\ hidden_levels = <<>>
    /\ IdleSheet
    /\ IdlePure

Next ==
    \/ ParseBegin
    \/ ParseBlankLine
    \/ ParseStatsLine
    \/ ParseSkipLine
    \/ ParseFilterEntry
    \/ ParseAcceptEntry
    \/ ParseFinish
    \/ ConvertToRows
    \/ WriteData
    \/ MergeLevelColumn
    \/ MergeDone

Spec == Init /\ [][Next]_vars

----------------------------------------------------------------------------
(* merge_level_column on every grid *)

CellValues == {<<>>, <<"a">>, <<"b">>}

\* the shapes <<rows, columns>> of at most MaxCells cells
GridShapes ==
    {sh \in (1..MaxCells) \X (1..MaxCells) : sh[1] * sh[2] <= MaxCells}

GridsOf(n, m) ==
    [1..n -> {ExcelRow(levels, <<>>, m, FALSE) : levels \in [1..m -> CellValues]}]

Grids == UNION {GridsOf(sh[1], sh[2]) : sh \in GridShapes}

InitGrid ==
    /\ pc = "merge"
    /\ data_rows \in Grids
    /\ rows = data_rows
    /\ max_level = data_rows[1].max_level
    /\ level_idx = 0
    /\ current_row = FirstDataRow
    /\ merges = <<>>
    /\ IdleParse
    /\ IdlePure

NextGrid == MergeLevelColumn \/ MergeDone

SpecGrid == InitGrid /\ [][NextGrid]_vars

----------------------------------------------------------------------------
(* remove_ansi_codes on every text *)

AnsiChars == {"ESC", "[", "m", "1", "~"}

InitAnsi ==
    /\ pc = "ansi"
    /\ ansi_text \in SeqsBetween(AnsiChars, 0, MaxAnsiLen)
    /\ ansi_once = None /\ ansi_twice = None
    /\ tree_line = <<>> /\ line_result = None
    /\ entry_name = <<>> /\ entry_is_file = None
    /\ IdleParse
    /\ IdleSheet

StripOnce ==
    /\ pc = "ansi"
    /\ ansi_once = None
    /\ ansi_once' = Some(remove_ansi_codes(ansi_text))
    /\ UNCHANGED <<pc, parseVars, sheetVars, ansi_text, ansi_twice, tree_line,
                   line_result, entry_name, entry_is_file>>

StripTwice ==
    /\ pc = "ansi"
    /\ ansi_once # None
    /\ ansi_twice = None
    /\ ansi_twice' = Some(remove_ansi_codes(ansi_once[1]))
    /\ UNCHANGED <<pc, parseVars, sheetVars, ansi_text, ansi_once, tree_line,
                   line_result, entry_name, entry_is_file>>

NextAnsi == StripOnce \/ StripTwice

SpecAnsi == InitAnsi /\ [][NextAnsi]_vars

----------------------------------------------------------------------------
(* parse_line on every line of indentation units, a connector and a name *)

IndentUnits == {BarUnit, PlainBarUnit, SpaceUnit}
Connectors == {Tee, Ell}

\* names that trimming leaves non-empty, with and without blanks around them
LineNames ==
    { <<"a">>, <<" ", "a">>, <<"a", " ">>, <<" ", " ", "a", ".", "b">>,
      <<".", "g">>, <<"a", " ", "b">>, <<" ", "d", "/", "e", "NBSP">> }

RECURSIVE Flatten(_)
Flatten(parts) == IF parts = <<>> THEN <<>> ELSE Head(parts) \o Flatten(Tail(parts))

\* the line of the given units, connector and name
TreeLine(units, connector, nm) == Flatten(units) \o connector \o nm

TreeLines ==
    {TreeLine(units, connector, nm) :
        units \in SeqsBetween(IndentUnits, 0, MaxUnits),
        connector \in Connectors,
        nm \in LineNames}

InitLine ==
    /\ pc = "line"
    /\ tree_line \in TreeLines
    /\ line_result = None
    /\ ansi_text = <<>> /\ ansi_once = None /\ ansi_twice = None
    /\ entry_name = <<>> /\ entry_is_file = None
    /\ IdleParse
    /\ IdleSheet

ParseLine ==
    /\ pc = "line"
    /\ pc' = "line_done"
    /\ line_result' = parse_line(tree_line)
    /\ UNCHANGED <<parseVars, sheetVars, ansi_text, ansi_once, ansi_twice,
                   tree_line, entry_name, entry_is_file>>

NextLine == ParseLine

SpecLine == InitLine /\ [][NextLine]_vars

----------------------------------------------------------------------------
(* is_file on every name *)

NameChars == {".", "a", "b"}

EntryNames == SeqsBetween(NameChars, 1, MaxNameLen) \cup AllowList

InitName ==
    /\ pc = "name"
    /\ entry_name \in EntryNames
    /\ entry_is_file = None
    /\ ansi_text = <<>> /\ ansi_once = None /\ ansi_twice = None
    /\ tree_line = <<>> /\ line_result = None
    /\ IdleParse
    /\ IdleSheet

Classify ==
    /\ pc = "name"
    /\ pc' = "name_done"
    /\ entry_is_file' = Some(is_file(entry_name))
    /\ UNCHANGED <<parseVars, sheetVars, ansi_text, ansi_once, ansi_twice,
                   tree_line, line_result, entry_name>>

NextName == Classify

SpecName == InitName /\ [][NextName]_vars

----------------------------------------------------------------------------
(* Claims about merge_level_column, under SpecGrid *)

\* the data row (1-based) a sheet row of a merge range stands for
RowOf(sheet_row) == sheet_row - FirstDataRow + 1

\* rows x and y of the grid agree on column c (1-based) and on every shallower one
SameUpTo(grid, c, x, y) ==
    \A p \in 1..c : grid[x].levels[p] = grid[y].levels[p]

\* C2: every merge range emitted for a column covers only rows that agree with
\* the run's first row on that column and on every shallower column, so
\* same-named children under different parents never share a range.
C2_ParentScopedRuns ==
    \A c \in 1..Len(merges) : \A k \in 1..Len(merges[c]) :
        LET r == merges[c][k]
        IN  /\ r.first_col = c - 1 /\ r.last_col = c - 1
            /\ \A x \in RowOf(r.first_row)..RowOf(r.last_row) :
                   SameUpTo(data_rows, c, RowOf(r.first_row), x)

\* two adjacent rows carry the same name in a deeper column under different
\* parents, a range was emitted for that column and the merging is over
C2_Witness ==
    /\ pc = "done"
    /\ \E c \in 2..Len(merges) :
        /\ merges[c] # <<>>
        /\ \E x \in 1..(Len(data_rows) - 1) :
            /\ data_rows[x].levels[c] # <<>>
            /\ data_rows[x].levels[c] = data_rows[x + 1].levels[c]
            /\ ~SameUpTo(data_rows, c - 1, x, x + 1)

\* C10: every merge range emitted for a column spans at least two rows, covers
\* no row that is empty in that column, and is maximal: the row before it and
\* the row after it differ from it in that column or in a shallower one; the
\* ranges of one column are pairwise disjoint.
C10_MaximalRuns ==
    \A c \in 1..Len(merges) :
        /\ \A k \in 1..Len(merges[c]) :
            LET r == merges[c][k]
                i == RowOf(r.first_row)
                j == RowOf(r.last_row)
            IN  /\ j - i + 1 >= 2
                /\ 1 <= i /\ j <= Len(data_rows)
                /\ \A x \in i..j : data_rows[x].levels[c] # <<>>
                /\ i > 1 => ~SameUpTo(data_rows, c, i, i - 1)
                /\ j < Len(data_rows) => ~SameUpTo(data_rows, c, i, j + 1)
        /\ \A k1, k2 \in 1..Len(merges[c]) :
            k1 < k2 => merges[c][k1].last_row < merges[c][k2].first_row

\* a column got two ranges, the second right after the first
C10_Witness ==
    /\ pc = "done"
    /\ \E c \in 1..Len(merges) :
        /\ Len(merges[c]) >= 2
        /\ merges[c][1].last_row + 1 = merges[c][2].first_row

----------------------------------------------------------------------------
(* Claim about remove_ansi_codes, under SpecAnsi *)

\* C6: remove_ansi_codes is idempotent: applied to its own result it returns
\* that result, which holds no escape character.
C6_Idempotent ==
    /\ ansi_once # None => ~ContainsChar(ansi_once[1], "ESC")
    /\ ansi_twice # None => ansi_twice[1] = ansi_once[1]

\* a text with an escape sequence and an escape no bracket follows, of which
\* the first application removed some characters and kept others
C6_Witness ==
    /\ ansi_twice # None
    /\ Contains(ansi_text, <<"ESC", "[">>)
    /\ \E i \in 1..Len(ansi_text) :
           ansi_text[i] = "ESC" /\ (i = Len(ansi_text) \/ ansi_text[i + 1] # "[")
    /\ ansi_once[1] # <<>>
    /\ ansi_once[1] # ansi_text

----------------------------------------------------------------------------
(* Claim about parse_line, under SpecLine *)

\* C3: a line of k complete indentation units, a connector and a name that is
\* not blank yields depth k + 1 and the trimmed name, whichever connector it has.
C3_DepthIsUnitsPlusOne ==
    pc = "line_done" =>
        \A units \in SeqsBetween(IndentUnits, 0, MaxUnits) :
            \A connector \in Connectors : \A nm \in LineNames :
                tree_line = TreeLine(units, connector, nm)
                    => line_result = Some(<<Len(units) + 1, Trim(nm)>>)

\* a last-child line under a plain-space unit and a bar unit, its name
\* surrounded by blanks, has been parsed
C3_Witness ==
    /\ pc = "line_done"
    /\ \E nm \in LineNames :
        /\ Trim(nm) # nm
        /\ tree_line = TreeLine(<<SpaceUnit, BarUnit>>, Ell, nm)
    /\ line_result # None
    /\ line_result[1][1] = 3

----------------------------------------------------------------------------
(* Claim about is_file, under SpecName *)

\* C8 as stated: is_file is true exactly when the name has a '.' that is
\* neither its first nor its last character, or the name is allow-listed.
C8_AnyInteriorDot ==
    entry_is_file # None =>
        entry_is_file[1] =
            (\/ \E i \in 2..(Len(entry_name) - 1) : entry_name[i] = "."
             \/ entry_name \in AllowList)

\* C8: is_file is true exactly when the name contains a '.' and neither starts
\* nor ends with one (its last '.' is neither first nor last, and the name is
\* not dot-prefixed), or the name is allow-listed.
C8_LastDotInterior ==
    entry_is_file # None =>
        entry_is_file[1] =
            (\/ /\ ContainsChar(entry_name, ".")
                /\ entry_name[1] # "."
                /\ entry_name[Len(entry_name)] # "."
             \/ entry_name \in AllowList)

\* a name with an interior '.' that ends with a '.' was classified a directory
C8_Witness ==
    /\ entry_is_file = Some(FALSE)
    /\ \E i \in 2..(Len(entry_name) - 1) : entry_name[i] = "."
    /\ entry_name[1] # "."
    /\ entry_name[Len(entry_name)] = "."

----------------------------------------------------------------------------
(* Claims about parse and convert_to_rows, under Spec *)

\* parse has returned
Parsed == pc \in {"convert", "write", "merge", "done"}

\* what line k of the input is as a tree entry: <<depth, name>>, if it is one
EntryOf(line) == IF IsEntryLine(line) THEN parse_line(line) ELSE None
DepthOf(line) == EntryOf(line)[1][1]
NameOf(line) == EntryOf(line)[1][2]

\* the lines of the input that are statistics lines
StatsLines == {k \in 1..Len(lines) : Trim(lines[k]) # <<>> /\ IsStatsLine(lines[k])}
FirstStatsLine == lines[CHOOSE k \in StatsLines : \A o \in StatsLines : k <= o]
LastStatsLine == lines[CHOOSE k \in StatsLines : \A o \in StatsLines : k >= o]

\* the summary item and the items before it
SummaryItem == items[Len(items)]
EntryItems == SubSeq(items, 1, Len(items) - 1)

\* line k is a descendant of the entry on line p: it is deeper, and so is
\* every entry between the two
IsDescendant(ls, p, k) ==
    /\ p < k
    /\ EntryOf(ls[p]) # None
    /\ EntryOf(ls[k]) # None
    /\ DepthOf(ls[k]) > DepthOf(ls[p])
    /\ \A q \in (p + 1)..(k - 1) :
           EntryOf(ls[q]) # None => DepthOf(ls[q]) > DepthOf(ls[p])

\* the entry on line k is suppressed: it is dot-prefixed, or it is a
\* descendant of a suppressed entry
RECURSIVE IsSuppressed(_, _)
IsSuppressed(ls, k) ==
    /\ EntryOf(ls[k]) # None
    /\ \/ StartsWith(NameOf(ls[k]), <<".">>)
       \/ \E p \in 1..(k - 1) : IsSuppressed(ls, p) /\ IsDescendant(ls, p, k)

DescendantOfSuppressed(ls, k) ==
    \E p \in 1..(k - 1) : IsSuppressed(ls, p) /\ IsDescendant(ls, p, k)

\* a '/'-separated segment of the path starts with '.'
HasHiddenSegment(path) ==
    \/ StartsWith(path, <<".">>)
    \/ Contains(path, <<"/", ".">>)

\* this step of the loop of parse pushes an item for the line at line_idx
PushesItem == pc = "parse" /\ pc' = "parse" /\ Len(items') = Len(items) + 1

\* C1 as stated: without include_hidden no item's full_path has a segment that
\* starts with '.', and no descendant line of a suppressed entry yields an item.
C1_NoHiddenSegment ==
    [][ (pc = "parse" /\ ~include_hidden) =>
            /\ \A i \in 1..Len(items') : ~HasHiddenSegment(items'[i].full_path)
            /\ PushesItem => ~DescendantOfSuppressed(lines, line_idx) ]_vars

\* C1: without include_hidden every item's full_path is the '/'-join of the
\* names of its open ancestors and its own, none of which starts with '.', and
\* no descendant line of a suppressed entry yields an item.
C1_NoHiddenName ==
    [][ (pc = "parse" /\ ~include_hidden /\ PushesItem) =>
            /\ \A i \in 1..Len(path_stack') : ~StartsWith(path_stack'[i], <<".">>)
            /\ path_stack'[Len(path_stack')] = items'[Len(items')].name
            /\ items'[Len(items')].full_path = Join(path_stack', <<"/">>)
            /\ ~DescendantOfSuppressed(lines, line_idx) ]_vars

\* parse without include_hidden has returned entries, and the input had a
\* descendant of a suppressed entry and an entry after that subtree
C1_Witness ==
    /\ Parsed
    /\ ~include_hidden
    /\ Len(items) >= 2
    /\ \E k \in 1..Len(lines) : DescendantOfSuppressed(lines, k)

\* no line of the input is a tree entry
NoEntryLines == \A k \in 1..Len(lines) : EntryOf(lines[k]) = None

\* C4 as stated: an input without entry lines yields the summary alone, and it
\* reports zero directories and zero files, whatever include_hidden is.
C4_ZeroCounts ==
    (Parsed /\ NoEntryLines) =>
        /\ Len(items) = 1
        /\ items[1].name = FormatStats(FormatCounts(0, 0))

\* C4: an input without entry lines yields the summary alone; it reports zero
\* directories and zero files, unless include_hidden is set and the input has a
\* statistics line: then it carries the last statistics line, trimmed.
C4_SummaryAlone ==
    (Parsed /\ NoEntryLines) =>
        /\ Len(items) = 1
        /\ items[1].level = 0
        /\ ~items[1].is_file
        /\ items[1].full_path = items[1].name
        /\ items[1].name =
               FormatStats(IF include_hidden /\ StatsLines # {}
                           THEN Trim(LastStatsLine)
                           ELSE FormatCounts(0, 0))

\* include_hidden is set and the input is a statistics line that does not
\* report zero and zero
C4_Witness ==
    /\ Parsed
    /\ NoEntryLines
    /\ include_hidden
    /\ StatsLines # {}
    /\ Trim(LastStatsLine) # FormatCounts(0, 0)

\* C5: without include_hidden the summary shows the number of directories and
\* of files among the items returned before it, whatever statistics line the
\* input has.
C5_RecomputedCounts ==
    (Parsed /\ ~include_hidden) =>
        SummaryItem.name =
            FormatStats(FormatCounts(
                Cardinality({k \in 1..Len(EntryItems) : ~EntryItems[k].is_file}),
                Cardinality({k \in 1..Len(EntryItems) : EntryItems[k].is_file})))

\* the input had a statistics line with other counts, a filtered entry, and
\* a directory and a file that were returned
C5_Witness ==
    /\ Parsed
    /\ ~include_hidden
    /\ StatsLines # {}
    /\ \E k \in 1..Len(EntryItems) : EntryItems[k].is_file
    /\ \E k \in 1..Len(EntryItems) : ~EntryItems[k].is_file
    /\ SummaryItem.name # FormatStats(Trim(LastStatsLine))

\* C7 as stated: of several statistics lines parse captures the first, and
\* with include_hidden the summary carries it.
C7_FirstStatsLine ==
    (Parsed /\ Cardinality(StatsLines) > 1) =>
        /\ stats_line = Some(Trim(FirstStatsLine))
        /\ include_hidden => SummaryItem.name = FormatStats(Trim(FirstStatsLine))

\* C7: of several statistics lines parse captures the last, and with
\* include_hidden the summary carries it.
C7_LastStatsLine ==
    (Parsed /\ Cardinality(StatsLines) > 1) =>
        /\ stats_line = Some(Trim(LastStatsLine))
        /\ include_hidden => SummaryItem.name = FormatStats(Trim(LastStatsLine))

\* include_hidden is set and the input had two different statistics lines
C7_Witness ==
    /\ Parsed
    /\ include_hidden
    /\ Cardinality(StatsLines) > 1
    /\ Trim(FirstStatsLine) # Trim(LastStatsLine)

\* the ancestor at depth dp of item k: the last item before k at that depth
\* with only deeper items in between
IsAncestor(its, a, k, dp) ==
    /\ a < k
    /\ its[a].level = dp
    /\ \A q \in (a + 1)..(k - 1) : its[q].level > dp

\* the deepest level among the items that are not the summary, 1 if there is none
MaxDepth ==
    LET ds == {EntryItems[k].level : k \in 1..Len(EntryItems)}
    IN  IF ds = {} THEN 1 ELSE CHOOSE m \in ds : \A d \in ds : d <= m

\* C9: the row of a non-summary item of depth d has maxDepth levels, the
\* item's name at index d - 1, the name of its ancestor of depth i + 1 at every
\* index i < d - 1, and nothing at the indexes from d on.
C9_RowHoldsAncestors ==
    pc \in {"write", "merge", "done"} =>
        \A k \in 1..Len(EntryItems) :
            LET d == EntryItems[k].level
                levels == rows[k].levels
            IN  /\ Len(levels) = MaxDepth
                /\ levels[d] = EntryItems[k].name
                /\ \A i \in 1..(d - 1) :
                       \E a \in 1..(k - 1) :
                           /\ IsAncestor(EntryItems, a, k, i)
                           /\ levels[i] = EntryItems[a].name
                /\ \A i \in (d + 1)..MaxDepth : levels[i] = <<>>

====
